---------------------------- MODULE Spec2Model ----------------------------
(***************************************************************************)
(* A model of Porter (src/porter.go): a pool of locally free TCP ports    *)
(* taken from one block of the port space.                                 *)
(*                                                                         *)
(* The Porter object is the state: config, effectiveMaxBlocks, firstPort,  *)
(* freePorts, pendingPorts, ln and stopCh.  Every exported method is one   *)
(* action (the methods run under p.mu, so each is one atomic step).  The   *)
(* host is an input: the ephemeral port range that sysctl reports, whether *)
(* the bind of the block's first port succeeds, and the set of ports that  *)
(* other processes hold while a call probes (IsPortInUse).                 *)
(*                                                                         *)
(* A Go runtime panic (index or slice bounds out of range, close of a      *)
(* closed channel) ends the process: `fault` records it and no action is   *)
(* enabled afterwards.                                                     *)
(***************************************************************************)
EXTENDS Integers, Sequences, FiniteSets, TLC

VARIABLES
    phase,               \* "unborn" (New not called), "ready" (New returned p), "failed" (New returned an error)
    config,              \* p.config: [BlockSize, MaxBlocks, LowerBound]
    ephemeral,           \* what ephemeralPortRange() returns on this host: [ok, min, max]
    effectiveMaxBlocks,  \* p.effectiveMaxBlocks
    firstPort,           \* p.firstPort
    freePorts,           \* p.freePorts
    pendingPorts,        \* p.pendingPorts
    ln,                  \* p.ln: [held, port]; held = FALSE is the nil listener
    stopCh,              \* p.stopCh: "open" or "closed"
    loop,                \* the goroutine running CheckFreedPorts: "idle", "running", "exited"
    fault,               \* "none", or the method in which the process panicked
    lastOp,              \* the last call: its arguments, its probe results and what it returned
    mu,                  \* p.mu: Unlocked, or the goroutine that holds it
    calls                \* per goroutine: the call it is in, its locals, and the ports the caller holds

vars == << phase, config, ephemeral, effectiveMaxBlocks, firstPort, freePorts,
           pendingPorts, ln, stopCh, loop, fault, lastOp, mu, calls >>

---------------------------------------------------------------------------
(* Bounds of the model.                                                    *)

\* Return is called with at most MaxReturn ports.
MaxReturn == 2

\* Take is called with n up to MaxTake (and down to -1).
MaxTake == 3

\* Return is not called once freePorts, pendingPorts and its argument
\* together would hold more than MaxPool ports.
MaxPool == 3

\* Other processes hold ports only among the first MaxBusy ports that follow
\* the first port of a block.
MaxBusy == 2

---------------------------------------------------------------------------
(* Helpers.                                                                *)

Range(s) == { s[i] : i \in 1..Len(s) }

SeqsUpTo(S, k) == UNION { [1..m -> S] : m \in 0..k }

NilListener == [held |-> FALSE, port |-> 0]

\* A call: op, its arguments (n of Take, arg of Return), the ports other
\* processes held while it probed (used), the ports it probed in order
\* (probed), the ports it returned, how it ended (err) and, for New, the block
\* it drew (n) and whether the bind of its first port succeeded (bound).
Op(op, n, arg, used, probed, ports, err, bound) ==
    [op |-> op, n |-> n, arg |-> arg, used |-> used, probed |-> probed,
     ports |-> ports, err |-> err, bound |-> bound]

Ints(a, b) == [i \in 1..(IF b >= a THEN b - a + 1 ELSE 0) |-> a + i - 1]

\* The elements of s at the indices in S, in the order of s.
Pick(s, S) ==
    LET in(i) == i \in S
        keep == SelectSeq(Ints(1, Len(s)), in)
    IN  [k \in 1..Len(keep) |-> s[keep[k]]]

\* The goroutines that use the pool: two callers of Take and Return, and the
\* goroutine that runs CheckFreedPorts.
Callers == {1, 2}

Reconciler == 3

Goroutines == Callers \cup {Reconciler}

\* The zero value of p.mu.
Unlocked == 0

\* A goroutine outside any call, its caller holding no port.  pc is the place
\* in the method: "idle", "lock" (at p.mu.Lock()), "check" (Take's test of
\* n), "loop" (in the method's loop), "unlock" (at the deferred Unlock).
\* used: the ports probed in use so far; i: the index of Return's loop;
\* ports: Take's local slice, then its result; held: the ports the caller got
\* from Take and has not passed to Return; free0, pending0: the lists when
\* the call got the mutex; seen: the ports other Take calls returned while
\* this call was in progress.
IdleCall ==
    [pc |-> "idle", op |-> "none", n |-> 0, arg |-> << >>, used |-> {},
     i |-> 0, ports |-> << >>, err |-> "none", held |-> << >>,
     free0 |-> << >>, pending0 |-> << >>, seen |-> {}]

---------------------------------------------------------------------------
(* Pure functions of porter.go.                                            *)

\* New's size check compares against 65535.
MaxPort == 65535

\* IsPortInUse: the bind of 127.0.0.1:port fails when a process holds it.
IsPortInUse(port, used) == port \in used

rangeOverlap(min1, max1, min2, max2) ==
    IF min1 > max1 THEN FALSE
    ELSE IF min2 > max2 THEN FALSE
    ELSE min1 <= max2 /\ min2 <= max1

\* adjustLoop with the end of a block taken one port too far (max, not max-1).
RECURSIVE adjustLoopEndInclusive(_, _, _, _, _)
adjustLoopEndInclusive(cfg, eMin, eMax, block, eff) ==
    IF block >= cfg.MaxBlocks THEN eff
    ELSE LET min == cfg.LowerBound + (block * cfg.BlockSize)
             max == min + cfg.BlockSize
             overlap == rangeOverlap(min, max, eMin, eMax)
         IN  adjustLoopEndInclusive(cfg, eMin, eMax, block + 1,
                                    IF overlap THEN block ELSE eff)

\* The loop of adjustMaxBlocks from `block` on, `eff` being p.effectiveMaxBlocks
\* so far: every overlapping block overwrites it, and the loop does not stop.
RECURSIVE adjustLoop(_, _, _, _, _)
adjustLoop(cfg, eMin, eMax, block, eff) ==
    IF block >= cfg.MaxBlocks THEN eff
    ELSE LET min == cfg.LowerBound + (block * cfg.BlockSize)
             max == min + cfg.BlockSize
             overlap == rangeOverlap(min, max - 1, eMin, eMax)
         IN  adjustLoop(cfg, eMin, eMax, block + 1, IF overlap THEN block ELSE eff)

adjustMaxBlocks(cfg, eMin, eMax) == adjustLoop(cfg, eMin, eMax, 0, cfg.MaxBlocks)

\* New's size check.
blockTooBig(cfg, eff) == cfg.LowerBound + (eff * cfg.BlockSize) > MaxPort

\* scanBlock with the loop condition port <= last.
scanBlockInclusive(port, last, used) ==
    LET free(q) == ~IsPortInUse(q, used)
    IN  SelectSeq(Ints(port, last), free)

\* New's scan of the block: the ports from `port` up to but not `last` that
\* probe free, in the ascending order of the loop.
scanBlock(port, last, used) ==
    LET free(q) == ~IsPortInUse(q, used)
    IN  SelectSeq(Ints(port, last - 1), free)

---------------------------------------------------------------------------
(* Inputs.                                                                 *)

Cfg(bs, mb, lb) == [BlockSize |-> bs, MaxBlocks |-> mb, LowerBound |-> lb]

Eph(min, max) == [ok |-> TRUE, min |-> min, max |-> max]

\* ephemeralPortRange() failed (unsupported OS, sysctl error).
EphFailed == [ok |-> FALSE, min |-> 0, max |-> 0]

\* DefaultConfig().
DefaultConfig == Cfg(100, 10, 10000)

\* The host of the pool specification: one block of three ports at port 4.
PoolConfigs == { Cfg(3, 1, 4) }

PoolRanges == { Eph(20, 30), EphFailed }

\* The hosts of the construction specification: small blocks low in the port
\* space and at its end, the two configurations of the README, the default.
NewConfigs ==
    { Cfg(bs, mb, lb) : bs \in {2, 3}, mb \in 1..3, lb \in {4, 10, 65527} }
    \cup { Cfg(100, 3, 8000), Cfg(100, 3, 32600), DefaultConfig }

NewRanges == { Eph(4, 30), Eph(7, 30), Eph(10, 30), Eph(7, 8), Eph(20, 30),
               Eph(30, 20), Eph(32768, 60999), EphFailed }

\* The ports other processes may hold while the block at `first` is probed.
BusyPorts(first, bs) == { p \in (first + 1)..(first + bs - 1) : p <= first + MaxBusy }

InitWith(configs, ranges) ==
    /\ phase = "unborn"
    /\ config \in configs
    /\ ephemeral \in ranges
    /\ effectiveMaxBlocks = 0
    /\ firstPort = 0
    /\ freePorts = << >>
    /\ pendingPorts = << >>
    /\ ln = NilListener
    /\ stopCh = "open"
    /\ loop = "idle"
    /\ fault = "none"
    /\ lastOp = Op("none", 0, << >>, {}, << >>, << >>, "none", FALSE)
    /\ mu = Unlocked
    /\ calls = [t \in Goroutines |-> IdleCall]

Init == InitWith(PoolConfigs, PoolRanges)

---------------------------------------------------------------------------
(* New(config).                                                            *)

\* alloc: the first port of block `block`.
allocFirst(cfg, block) == cfg.LowerBound + (block * cfg.BlockSize)

\* New ignores the error alloc returns: after a failed bind p.firstPort and
\* p.ln keep their zero values and New goes on to scan.
newFirstPort(first, bindOk) == IF bindOk THEN first ELSE 0

newFails(err) ==
    /\ phase' = "failed"
    /\ lastOp' = Op("New", -1, << >>, {}, << >>, << >>, err, FALSE)
    /\ UNCHANGED << firstPort, freePorts, pendingPorts, ln >>

New ==
    /\ UNCHANGED << mu, calls >>
    /\ phase = "unborn"
    /\ fault = "none"
    /\ UNCHANGED << config, ephemeral, stopCh, loop, fault >>
    /\ IF ~ephemeral.ok
       THEN /\ effectiveMaxBlocks' = config.MaxBlocks
            /\ newFails("QueryFailed")
       ELSE LET eff == adjustMaxBlocks(config, ephemeral.min, ephemeral.max)
            IN  /\ effectiveMaxBlocks' = eff
                /\ IF eff <= 0 THEN newFails("RangeExhausted")
                   ELSE IF blockTooBig(config, eff) THEN newFails("BlockTooLarge")
                   ELSE \E block \in 0..(eff - 1), bindErr \in BOOLEAN :
                          LET first == allocFirst(config, block)
                              bindOk == ~bindErr
                              fp == newFirstPort(first, bindOk)
                          IN  \E used \in SUBSET BusyPorts(fp, config.BlockSize) :
                                /\ phase' = "ready"
                                /\ firstPort' = fp
                                /\ ln' = IF bindOk THEN [held |-> TRUE, port |-> first]
                                         ELSE NilListener
                                /\ freePorts' = scanBlock(fp + 1, fp + config.BlockSize, used)
                                /\ pendingPorts' = << >>
                                /\ lastOp' = Op("New", block, << >>, used,
                                                Ints(fp + 1, fp + config.BlockSize - 1),
                                                << >>, "none", bindOk)

---------------------------------------------------------------------------
(* Take(n).                                                                *)

\* takeFails with the comparison off by one.
takeFailsOffByOne(n, free) == n > Len(free) + 1

takeFails(n, free) == n > Len(free)

\* takeLoop without the probe: every popped port is returned.
RECURSIVE takeLoopNoProbe(_, _, _, _, _)
takeLoopNoProbe(n, free, ports, probed, used) ==
    IF ~(Len(ports) < n)
    THEN [free |-> free, ports |-> ports, probed |-> probed, panic |-> FALSE]
    ELSE IF Len(free) = 0
    THEN [free |-> free, ports |-> ports, probed |-> probed, panic |-> TRUE]
    ELSE takeLoopNoProbe(n, Tail(free), Append(ports, free[1]),
                         Append(probed, free[1]), used)

\* The loop of Take: pop the head of freePorts and probe it until n ports are
\* collected.  p.freePorts[0] on an empty slice is an index out of range.
RECURSIVE takeLoop(_, _, _, _, _)
takeLoop(n, free, ports, probed, used) ==
    IF ~(Len(ports) < n)
    THEN [free |-> free, ports |-> ports, probed |-> probed, panic |-> FALSE]
    ELSE IF Len(free) = 0
    THEN [free |-> free, ports |-> ports, probed |-> probed, panic |-> TRUE]
    ELSE LET port == free[1]
         IN  IF IsPortInUse(port, used)
             THEN takeLoop(n, Tail(free), ports, Append(probed, port), used)
             ELSE takeLoop(n, Tail(free), Append(ports, port), Append(probed, port), used)

Take(n) ==
    /\ UNCHANGED << mu, calls >>
    /\ phase = "ready"
    /\ fault = "none"
    /\ UNCHANGED << phase, config, ephemeral, effectiveMaxBlocks, firstPort,
                    pendingPorts, ln, stopCh, loop >>
    /\ IF takeFails(n, freePorts)
       THEN /\ lastOp' = Op("Take", n, << >>, {}, << >>, << >>, "InsufficientPorts", FALSE)
            /\ UNCHANGED << freePorts, fault >>
       ELSE \E used \in SUBSET Range(freePorts) :
              LET r == takeLoop(n, freePorts, << >>, << >>, used)
              IN  /\ freePorts' = r.free
                  /\ fault' = IF r.panic THEN "Take" ELSE "none"
                  /\ lastOp' = Op("Take", n, << >>, used, r.probed,
                                  IF r.panic THEN << >> ELSE r.ports,
                                  IF r.panic THEN "panic" ELSE "none", FALSE)

---------------------------------------------------------------------------
(* Return(ports).                                                          *)

\* The bound check of Return.
returnAccepts(port, first, bs) == port > first /\ port < first * bs

RECURSIVE returnLoop(_, _, _, _)
returnLoop(ports, pending, first, bs) ==
    IF ports = << >> THEN pending
    ELSE returnLoop(Tail(ports),
                    IF returnAccepts(Head(ports), first, bs)
                    THEN Append(pending, Head(ports)) ELSE pending,
                    first, bs)

\* The ports a caller passes to Return: the first port of the block, the two
\* ports after it, the port that follows the block and a port far above it.
ArgPorts == { firstPort, firstPort + 1, firstPort + 2,
              firstPort + config.BlockSize, firstPort * config.BlockSize }

Return(ports) ==
    /\ UNCHANGED << mu, calls >>
    /\ phase = "ready"
    /\ fault = "none"
    /\ Len(freePorts) + Len(pendingPorts) + Len(ports) <= MaxPool
    /\ pendingPorts' = IF Len(ports) = 0 THEN pendingPorts
                       ELSE returnLoop(ports, pendingPorts, firstPort, config.BlockSize)
    /\ lastOp' = Op("Return", 0, ports, {}, << >>, << >>, "none", FALSE)
    /\ UNCHANGED << phase, config, ephemeral, effectiveMaxBlocks, firstPort,
                    freePorts, ln, stopCh, loop, fault >>

---------------------------------------------------------------------------
(* checkFreedPorts and the loop of CheckFreedPorts.                        *)

\* The loop of checkFreedPorts at index i (from 1).  `range` evaluated
\* p.pendingPorts once: len0 elements of the backing array arr are visited,
\* each read when its turn comes.  plen is len(p.pendingPorts) now.  A port
\* that probes free is appended to freePorts, then
\*   append(p.pendingPorts[:i], p.pendingPorts[i+1:]...)
\* moves the elements after it one place down in the same array; the slice
\* p.pendingPorts[i+1:] is out of range once i (from 0) has reached plen.
RECURSIVE checkLoop(_, _, _, _, _, _, _)
checkLoop(i, len0, arr, plen, free, probed, used) ==
    IF i > len0
    THEN [free |-> free, pending |-> SubSeq(arr, 1, plen), probed |-> probed,
          panic |-> FALSE]
    ELSE LET port == arr[i]
         IN  IF IsPortInUse(port, used)
             THEN checkLoop(i + 1, len0, arr, plen, free, Append(probed, port), used)
             ELSE IF i > plen
             THEN [free |-> Append(free, port), pending |-> SubSeq(arr, 1, plen),
                   probed |-> Append(probed, port), panic |-> TRUE]
             ELSE checkLoop(i + 1, len0,
                            [k \in 1..len0 |-> IF k >= i /\ k < plen THEN arr[k + 1]
                                               ELSE arr[k]],
                            plen - 1, Append(free, port), Append(probed, port), used)

checkFreedPorts(pending, free, used) ==
    checkLoop(1, Len(pending), pending, Len(pending), free, << >>, used)

\* The caller starts the loop: go p.CheckFreedPorts().
StartLoop ==
    /\ UNCHANGED << mu, calls >>
    /\ phase = "ready"
    /\ fault = "none"
    /\ loop = "idle"
    /\ loop' = "running"
    /\ lastOp' = Op("StartLoop", 0, << >>, {}, << >>, << >>, "none", FALSE)
    /\ UNCHANGED << phase, config, ephemeral, effectiveMaxBlocks, firstPort,
                    freePorts, pendingPorts, ln, stopCh, fault >>

\* CheckFreedPorts, case <-ticker.C: one reconcile cycle.  select may take
\* this case also when stopCh is closed and the ticker is ready.
Tick(used) ==
    /\ UNCHANGED << mu, calls >>
    /\ loop = "running"
    /\ fault = "none"
    /\ LET r == checkFreedPorts(pendingPorts, freePorts, used)
       IN  /\ freePorts' = r.free
           /\ pendingPorts' = r.pending
           /\ fault' = IF r.panic THEN "checkFreedPorts" ELSE "none"
           /\ lastOp' = Op("reconcile", 0, << >>, used, r.probed, << >>,
                           IF r.panic THEN "panic" ELSE "none", FALSE)
    /\ UNCHANGED << phase, config, ephemeral, effectiveMaxBlocks, firstPort,
                    ln, stopCh, loop >>

\* CheckFreedPorts, case <-p.stopCh: the loop returns.
LoopStop ==
    /\ UNCHANGED << mu, calls >>
    /\ loop = "running"
    /\ fault = "none"
    /\ stopCh = "closed"
    /\ loop' = "exited"
    /\ lastOp' = Op("LoopStop", 0, << >>, {}, << >>, << >>, "none", FALSE)
    /\ UNCHANGED << phase, config, ephemeral, effectiveMaxBlocks, firstPort,
                    freePorts, pendingPorts, ln, stopCh, fault >>

---------------------------------------------------------------------------
(* Close().                                                                *)

\* The deferred close(p.stopCh) panics on a channel that is closed.
closePanics(ch) == ch = "closed"

Close ==
    /\ UNCHANGED << mu, calls >>
    /\ phase = "ready"
    /\ fault = "none"
    /\ ln' = NilListener
    /\ stopCh' = "closed"
    /\ fault' = IF closePanics(stopCh) THEN "Close" ELSE "none"
    /\ lastOp' = Op("Close", 0, << >>, {}, << >>, << >>,
                    IF closePanics(stopCh) THEN "panic" ELSE "none", FALSE)
    /\ UNCHANGED << phase, config, ephemeral, effectiveMaxBlocks, firstPort,
                    freePorts, pendingPorts, loop >>

\* The last call is a Take that returned ports.
TakeReturned == lastOp.op = "Take" /\ lastOp.err = "none"

---------------------------------------------------------------------------
(* The pool specification: a host of PoolConfigs, any calls in any order.  *)

TakeCall == \E n \in (-1)..MaxTake : Take(n)

ReturnCall == \E ports \in SeqsUpTo(ArgPorts, MaxReturn) : Return(ports)

TickCall == \E used \in SUBSET Range(pendingPorts) : Tick(used)

Next ==
    \/ New
    \/ TakeCall
    \/ ReturnCall
    \/ StartLoop
    \/ TickCall
    \/ LoopStop
    \/ Close

Spec == Init /\ [][Next]_vars

\* The pool with the scheduling of CheckFreedPorts' select: once stopCh is
\* closed its stop case is ready at every iteration, and select picks among
\* the ready cases at random, so the stop case is not passed over for ever.
SpecStop == Init /\ [][Next]_vars /\ WF_vars(LoopStop)

---------------------------------------------------------------------------
(* The construction specification: New on every host of NewConfigs.        *)

InitNew == InitWith(NewConfigs, NewRanges)

NextNew == New

SpecNew == InitNew /\ [][NextNew]_vars

---------------------------------------------------------------------------
(* The quiet specification: no other process binds a port after New, the   *)
(* loop is running, and a caller takes ports while nothing is pending and  *)
(* returns at once exactly the ports it took.  The ticker fires for ever.  *)

QuietConfigs == { Cfg(3, 1, 4), Cfg(4, 1, 4) }

InitQuiet == InitWith(QuietConfigs, PoolRanges)

TakeQuiet ==
    /\ loop = "running"
    /\ stopCh = "open"
    /\ pendingPorts = << >>
    /\ \E n \in 1..MaxTake : Take(n) /\ lastOp'.used = {}

ReturnTaken ==
    /\ TakeReturned
    /\ lastOp.ports # << >>
    /\ Return(lastOp.ports)

TickQuiet == Tick({})

NextQuiet ==
    \/ New
    \/ StartLoop
    \/ TakeQuiet
    \/ ReturnTaken
    \/ TickQuiet

SpecQuiet == InitQuiet /\ [][NextQuiet]_vars /\ WF_vars(TickQuiet)

---------------------------------------------------------------------------
(* The concurrent specification: two callers and the loop of               *)
(* CheckFreedPorts run Take, Return and checkFreedPorts one statement at a  *)
(* time.  A caller passes to Return only ports it got from Take and has    *)
(* not returned yet.  In the specifications above a method is one step,    *)
(* from its p.mu.Lock() to its deferred Unlock.                            *)

\* p.mu.Lock() goes on when no goroutine holds the mutex.
lockAlways(m) == TRUE

lockFree(m) == m = Unlocked

InCall(t) == calls[t].pc \in {"check", "loop", "unlock"}

PoolUnchanged ==
    UNCHANGED << phase, config, ephemeral, effectiveMaxBlocks, firstPort,
                 ln, stopCh, loop >>

\* A caller calls Take(n).
CallTake(t) ==
    /\ phase = "ready"
    /\ fault = "none"
    /\ calls[t].pc = "idle"
    /\ \E n \in 1..MaxTake :
         calls' = [calls EXCEPT ![t] =
                     [@ EXCEPT !.pc = "lock", !.op = "Take", !.n = n]]
    /\ UNCHANGED << freePorts, pendingPorts, fault, lastOp, mu >>
    /\ PoolUnchanged

\* A caller calls Return with some of the ports it holds; with none of them
\* Return returns before it locks.
CallReturn(t) ==
    /\ phase = "ready"
    /\ fault = "none"
    /\ calls[t].pc = "idle"
    /\ \E S \in SUBSET (1..Len(calls[t].held)) :
         LET ports == Pick(calls[t].held, S)
             rest == Pick(calls[t].held, (1..Len(calls[t].held)) \ S)
         IN  calls' = [calls EXCEPT ![t] =
                         IF Len(ports) = 0 THEN @
                         ELSE [@ EXCEPT !.pc = "lock", !.op = "Return",
                                        !.arg = ports, !.i = 1, !.held = rest]]
    /\ UNCHANGED << freePorts, pendingPorts, fault, lastOp, mu >>
    /\ PoolUnchanged

\* CheckFreedPorts, case <-ticker.C: the loop calls checkFreedPorts.
CallCheck ==
    /\ loop = "running"
    /\ fault = "none"
    /\ calls[Reconciler].pc = "idle"
    /\ calls' = [calls EXCEPT ![Reconciler] =
                   [@ EXCEPT !.pc = "lock", !.op = "reconcile"]]
    /\ UNCHANGED << freePorts, pendingPorts, fault, lastOp, mu >>
    /\ PoolUnchanged

\* p.mu.Lock() of Take, Return and checkFreedPorts.
Lock(t) ==
    /\ fault = "none"
    /\ calls[t].pc = "lock"
    /\ lockFree(mu)
    /\ mu' = t
    /\ calls' = [calls EXCEPT ![t] =
                   [@ EXCEPT !.pc = IF calls[t].op = "Take" THEN "check" ELSE "loop",
                             !.free0 = freePorts, !.pending0 = pendingPorts]]
    /\ UNCHANGED << freePorts, pendingPorts, fault, lastOp >>
    /\ PoolUnchanged

\* Take: if n > len(p.freePorts) return the error.
TakeCheck(t) ==
    /\ fault = "none"
    /\ calls[t].pc = "check"
    /\ calls' = [calls EXCEPT ![t] =
                   IF takeFails(calls[t].n, freePorts)
                   THEN [@ EXCEPT !.pc = "unlock", !.err = "InsufficientPorts"]
                   ELSE [@ EXCEPT !.pc = "loop"]]
    /\ UNCHANGED << freePorts, pendingPorts, fault, lastOp, mu >>
    /\ PoolUnchanged

\* Take: one test of len(ports) < n and, if it holds, one pass of the loop.
TakeIter(t) ==
    /\ fault = "none"
    /\ calls[t].pc = "loop"
    /\ calls[t].op = "Take"
    /\ IF ~(Len(calls[t].ports) < calls[t].n)
       THEN /\ calls' = [calls EXCEPT ![t] = [@ EXCEPT !.pc = "unlock"]]
            /\ UNCHANGED << freePorts, fault >>
       ELSE IF Len(freePorts) = 0
       THEN /\ fault' = "Take"
            /\ UNCHANGED << freePorts, calls >>
       ELSE \E inUse \in BOOLEAN :
              LET port == freePorts[1]
              IN  /\ freePorts' = Tail(freePorts)
                  /\ fault' = fault
                  /\ calls' = [calls EXCEPT ![t] =
                                 IF inUse
                                 THEN [@ EXCEPT !.used = @ \cup {port}]
                                 ELSE [@ EXCEPT !.ports = Append(@, port)]]
    /\ UNCHANGED << pendingPorts, lastOp, mu >>
    /\ PoolUnchanged

\* Return: one pass of the loop over ports, or its end.
ReturnIter(t) ==
    /\ fault = "none"
    /\ calls[t].pc = "loop"
    /\ calls[t].op = "Return"
    /\ IF calls[t].i > Len(calls[t].arg)
       THEN /\ calls' = [calls EXCEPT ![t] = [@ EXCEPT !.pc = "unlock"]]
            /\ UNCHANGED pendingPorts
       ELSE LET port == calls[t].arg[calls[t].i]
            IN  /\ pendingPorts' =
                     IF returnAccepts(port, firstPort, config.BlockSize)
                     THEN Append(pendingPorts, port) ELSE pendingPorts
                /\ calls' = [calls EXCEPT ![t] = [@ EXCEPT !.i = @ + 1]]
    /\ UNCHANGED << freePorts, fault, lastOp, mu >>
    /\ PoolUnchanged

\* checkFreedPorts: the loop over p.pendingPorts, in one step.
CheckBody ==
    /\ fault = "none"
    /\ calls[Reconciler].pc = "loop"
    /\ \E used \in SUBSET Range(pendingPorts) :
         LET r == checkFreedPorts(pendingPorts, freePorts, used)
         IN  /\ freePorts' = r.free
             /\ pendingPorts' = r.pending
             /\ fault' = IF r.panic THEN "checkFreedPorts" ELSE "none"
             /\ calls' = [calls EXCEPT ![Reconciler] =
                            [@ EXCEPT !.pc = IF r.panic THEN "loop" ELSE "unlock",
                                      !.used = used]]
    /\ UNCHANGED << lastOp, mu >>
    /\ PoolUnchanged

\* The deferred p.mu.Unlock(); the method returns.  The caller of Take now
\* holds the ports it got.
Unlock(t) ==
    /\ fault = "none"
    /\ calls[t].pc = "unlock"
    /\ mu' = Unlocked
    /\ LET c == calls[t]
           got == IF c.op = "Take" /\ c.err = "none" THEN c.ports ELSE << >>
       IN  /\ calls' = [u \in Goroutines |->
                          IF u = t
                          THEN [IdleCall EXCEPT !.held = c.held \o got]
                          ELSE IF calls[u].op = "Take"
                          THEN [calls[u] EXCEPT !.seen = @ \cup Range(got)]
                          ELSE calls[u]]
           /\ lastOp' = Op(c.op, c.n, c.arg, c.used, << >>, got, c.err, FALSE)
    /\ UNCHANGED << freePorts, pendingPorts, fault >>
    /\ PoolUnchanged

CallerStep ==
    \E t \in Callers : CallTake(t) \/ CallReturn(t) \/ TakeCheck(t)
                          \/ TakeIter(t) \/ ReturnIter(t)

MutexStep == \E t \in Goroutines : Lock(t) \/ Unlock(t)

NextConc ==
    \/ New
    \/ StartLoop
    \/ CallerStep
    \/ CallCheck
    \/ CheckBody
    \/ MutexStep

SpecConc == Init /\ [][NextConc]_vars

---------------------------------------------------------------------------
(* The claims.                                                             *)

\* p lies strictly inside (firstPort, firstPort+BlockSize).
InBlock(p) == firstPort < p /\ p < firstPort + config.BlockSize

\* Block b of the configuration shares a port with the ephemeral range.
BlockOverlaps(b) ==
    LET lo == config.LowerBound + b * config.BlockSize
        hi == lo + config.BlockSize - 1
    IN  /\ ephemeral.min <= ephemeral.max
        /\ lo <= ephemeral.max
        /\ ephemeral.min <= hi

\* C1: the ports one Take call returns are pairwise distinct and each lies
\* strictly inside (firstPort, firstPort+BlockSize).
C1_TakePortsDistinctInBlock ==
    TakeReturned =>
        /\ \A i, j \in 1..Len(lastOp.ports) : i # j => lastOp.ports[i] # lastOp.ports[j]
        /\ \A i \in 1..Len(lastOp.ports) : InBlock(lastOp.ports[i])

\* C2: Take(n) with n greater than the length of freePorts fails with
\* InsufficientPorts, returns no port, probes no port and leaves freePorts
\* and pendingPorts as they were.
C2_TakeInsufficient ==
    [][ (lastOp'.op = "Take" /\ lastOp'.n > Len(freePorts)) =>
            /\ lastOp'.err = "InsufficientPorts"
            /\ lastOp'.ports = << >>
            /\ lastOp'.probed = << >>
            /\ freePorts' = freePorts
            /\ pendingPorts' = pendingPorts
            /\ fault' = "none" ]_vars

\* A Take that asked for more ports than a non-empty freePorts holds.
C2_Witness ==
    /\ lastOp.op = "Take"
    /\ lastOp.err = "InsufficientPorts"
    /\ freePorts # << >>
    /\ lastOp.n > Len(freePorts)

\* C3: Take always completes: it never aborts abnormally, also when freePorts
\* runs empty before n ports are collected.
C3_TakeCompletes ==
    lastOp.op = "Take" => (lastOp.err # "panic" /\ fault = "none")

\* C4: a Take(n) that returns removes a prefix of freePorts, the popped
\* ports; it returns the popped ports that probed free, in queue order, n of
\* them, and pops no further than the n-th; the ports not popped stay in
\* freePorts in their order, and pendingPorts is unchanged.
C4_TakeQueueOrder ==
    [][ (lastOp'.op = "Take" /\ lastOp'.err = "none") =>
            LET k == Len(freePorts) - Len(freePorts')
                popped == SubSeq(freePorts, 1, k)
                probedFree(q) == q \notin lastOp'.used
            IN  /\ k >= 0
                /\ freePorts' = SubSeq(freePorts, k + 1, Len(freePorts))
                /\ lastOp'.probed = popped
                /\ lastOp'.ports = SelectSeq(popped, probedFree)
                /\ Len(lastOp'.ports) = (IF lastOp'.n > 0 THEN lastOp'.n ELSE 0)
                /\ k > 0 => popped[k] \notin lastOp'.used
                /\ pendingPorts' = pendingPorts
                /\ fault' = "none" ]_vars

\* A Take that discarded a port in use, returned a port and left a port in
\* freePorts.
C4_Witness ==
    /\ TakeReturned
    /\ Len(lastOp.ports) >= 1
    /\ Len(lastOp.probed) > Len(lastOp.ports)
    /\ freePorts # << >>

\* C5: Return(ports) appends to pendingPorts, in argument order, exactly the
\* argument ports inside (firstPort, firstPort+BlockSize), and leaves
\* freePorts unchanged.
C5_ReturnInBlockOnly ==
    [][ lastOp'.op = "Return" =>
            /\ pendingPorts' = pendingPorts \o SelectSeq(lastOp'.arg, InBlock)
            /\ freePorts' = freePorts
            /\ lastOp'.probed = << >> ]_vars

\* On an allocator that holds its reservation and is not closed, the caller
\* has just returned the ports of its Take; with them back the size of
\* freePorts would be s.
ReturnedAll(s) ==
    /\ ln.held
    /\ stopCh = "open"
    /\ lastOp.op = "Return"
    /\ Len(freePorts) + Len(lastOp.arg) = s

\* Nothing is pending, the ports in T are in freePorts and its size is s.
Restored(s, T) ==
    /\ fault = "none"
    /\ pendingPorts = << >>
    /\ T \subseteq Range(freePorts)
    /\ Len(freePorts) = s

\* The ports of the quiet hosts: the ports of the block behind the first
\* port of a block of QuietConfigs, or behind port 0.
QuietFirsts(c) == {0} \cup { allocFirst(c, b) : b \in 0..(c.MaxBlocks - 1) }

QuietPorts ==
    UNION { UNION { (f + 1)..(f + c.BlockSize - 1) : f \in QuietFirsts(c) } :
            c \in QuietConfigs }

\* C6: after Take(n) and Return of exactly its ports, with every probe
\* free, the loop eventually has all n ports back in freePorts, none
\* pending, and freePorts at its size before the Take.
C6_ReturnedPortsRestored ==
    \A s \in 1..MaxPool : \A T \in SUBSET QuietPorts :
        (ReturnedAll(s) /\ Range(lastOp.arg) = T) ~> Restored(s, T)

\* New reached alloc and the bind of the block's first port failed.
BindFailed == lastOp.op = "New" /\ lastOp.n >= 0 /\ ~lastOp.bound

\* C7: New succeeds only with the listener bound on the first port of a
\* block below effectiveMaxBlocks, held until Close; a failed bind makes New
\* fail with ReservationFailed.
C7_NewReserves ==
    /\ (phase = "ready" /\ stopCh = "open") =>
          /\ ln.held
          /\ ln.port = firstPort
          /\ \E block \in 0..(effectiveMaxBlocks - 1) :
                firstPort = config.LowerBound + block * config.BlockSize
    /\ BindFailed => (phase = "failed" /\ lastOp.err = "ReservationFailed")

\* C8: when exactly the blocks with index >= k overlap the ephemeral range,
\* planning yields effectiveMaxBlocks = k.
C8_FirstOverlappingBlock ==
    (lastOp.op = "New" /\ ephemeral.ok) =>
        \A k \in 0..(config.MaxBlocks - 1) :
            (\A b \in 0..(config.MaxBlocks - 1) : BlockOverlaps(b) <=> b >= k)
                => effectiveMaxBlocks = k

\* C9: when New succeeds no block below effectiveMaxBlocks overlaps the
\* ephemeral range, and when block 0 overlaps New fails with RangeExhausted.
C9_NoSelectableBlockOverlaps ==
    /\ phase = "ready" =>
          \A b \in 0..(effectiveMaxBlocks - 1) : ~BlockOverlaps(b)
    /\ (lastOp.op = "New" /\ ephemeral.ok /\ BlockOverlaps(0)) =>
          (phase = "failed" /\ lastOp.err = "RangeExhausted")

\* C10: every call of Close completes normally and leaves the listener
\* released and the stop signal set.
C10_CloseIdempotent ==
    lastOp.op = "Close" =>
        /\ lastOp.err = "none"
        /\ fault = "none"
        /\ ~ln.held
        /\ stopCh = "closed"

\* C11: after Close the running reconciliation loop eventually exits; once
\* it has exited no reconcile cycle runs and no port leaves pendingPorts or
\* enters freePorts, while Take and Return can still be called.
C11_LoopExitsAfterClose ==
    /\ (stopCh = "closed" /\ loop = "running") ~> (loop = "exited")
    /\ [][ loop = "exited" =>
             /\ lastOp'.op # "reconcile"
             /\ Len(freePorts') <= Len(freePorts)
             /\ Len(pendingPorts') >= Len(pendingPorts) ]_vars
    /\ []((loop = "exited" /\ fault = "none") =>
             (ENABLED TakeCall /\ ENABLED ReturnCall))

\* C12: when LowerBound + MaxBlocks*BlockSize <= 65536 and no block shares a
\* port with the ephemeral range (an inverted range shares none), planning
\* leaves effectiveMaxBlocks = MaxBlocks.
C12_NoOverlapKeepsMaxBlocks ==
    (/\ lastOp.op = "New"
     /\ ephemeral.ok
     /\ config.LowerBound + config.MaxBlocks * config.BlockSize <= 65536
     /\ \A b \in 0..(config.MaxBlocks - 1) : ~BlockOverlaps(b))
        => effectiveMaxBlocks = config.MaxBlocks

\* New ran on a host with several blocks, none of them in the ephemeral
\* range, which lies right above the last block.
C12_Witness ==
    /\ lastOp.op = "New"
    /\ ephemeral.ok
    /\ config.MaxBlocks >= 2
    /\ config.LowerBound + config.MaxBlocks * config.BlockSize = ephemeral.min
    /\ ephemeral.min <= ephemeral.max
    /\ effectiveMaxBlocks = config.MaxBlocks

\* C13: once planning has left effectiveMaxBlocks > 0, New passes the size
\* check exactly when LowerBound + effectiveMaxBlocks*BlockSize <= 65536, and
\* fails with BlockTooLarge otherwise.
C13_SizeCheckAt65536 ==
    (lastOp.op = "New" /\ ephemeral.ok /\ effectiveMaxBlocks > 0) =>
        ((config.LowerBound + effectiveMaxBlocks * config.BlockSize <= 65536)
            <=> lastOp.err # "BlockTooLarge")

\* C14: one reconcile cycle probes each port pending at its start once, in
\* order; the ports probed free are appended to freePorts in that order and
\* leave pendingPorts, the ports in use stay pending in their order.
C14_ReconcileMovesFreePorts ==
    [][ lastOp'.op = "reconcile" =>
            LET probedFree(q) == q \notin lastOp'.used
                probedUsed(q) == q \in lastOp'.used
            IN  /\ lastOp'.probed = pendingPorts
                /\ freePorts' = freePorts \o SelectSeq(pendingPorts, probedFree)
                /\ pendingPorts' = SelectSeq(pendingPorts, probedUsed) ]_vars

\* C15: every port in freePorts and in pendingPorts lies strictly inside
\* (firstPort, firstPort+BlockSize).
C15_PoolPortsInBlock ==
    phase = "ready" =>
        \A p \in Range(freePorts) \cup Range(pendingPorts) : InBlock(p)

\* C16: freePorts and pendingPorts are disjoint.
C16_FreePendingDisjoint ==
    Range(freePorts) \cap Range(pendingPorts) = {}

\* Whoever is between p.mu.Lock() and the deferred Unlock holds the mutex.
MutexHeld == \A t \in Goroutines : InCall(t) => mu = t

\* A call that has reached its Unlock has had the effect of the method run
\* alone on the lists as they were when it got the mutex.
NoLostUpdate ==
    \A t \in Goroutines :
        calls[t].pc = "unlock" =>
            LET c == calls[t]
            IN  IF c.op = "Take"
                THEN IF takeFails(c.n, c.free0)
                     THEN /\ c.err = "InsufficientPorts"
                          /\ c.ports = << >>
                          /\ freePorts = c.free0
                          /\ pendingPorts = c.pending0
                     ELSE LET r == takeLoop(c.n, c.free0, << >>, << >>, c.used)
                          IN  /\ ~r.panic
                              /\ c.err = "none"
                              /\ c.ports = r.ports
                              /\ freePorts = r.free
                              /\ pendingPorts = c.pending0
                ELSE IF c.op = "Return"
                THEN /\ pendingPorts = returnLoop(c.arg, c.pending0, firstPort,
                                                  config.BlockSize)
                     /\ freePorts = c.free0
                ELSE LET r == checkFreedPorts(c.pending0, c.free0, c.used)
                     IN  /\ freePorts = r.free
                         /\ pendingPorts = r.pending

\* A Take that is about to return got no port that another Take returned
\* while this one was in progress.
ConcurrentTakesDisjoint ==
    \A t \in Callers :
        (calls[t].pc = "unlock" /\ calls[t].op = "Take") =>
            Range(calls[t].ports) \cap calls[t].seen = {}

\* C17 as stated: Take, Return and a reconcile cycle run under the mutex, no
\* update of one is lost to another, and two concurrent Take calls never
\* return a common port.
C17_ConcurrentTakesNoCommonPort ==
    /\ MutexHeld
    /\ NoLostUpdate
    /\ ConcurrentTakesDisjoint

\* C17, amended: Take, Return and a reconcile cycle access freePorts and
\* pendingPorts only while they hold the mutex, one at a time, and each has
\* the effect of the method run alone on the lists as they were when it got
\* the mutex: no update is lost.
C17_MutexSerializes ==
    /\ [](MutexHeld /\ NoLostUpdate)
    /\ [][ (phase = "ready" /\ (freePorts' # freePorts \/ pendingPorts' # pendingPorts))
             => (mu # Unlocked /\ InCall(mu) /\ mu' = mu) ]_vars

\* A Take that waited for the mutex while another Take ran and returned a
\* port is about to return a port itself.
C17_Witness ==
    \E t \in Callers :
        /\ calls[t].pc = "unlock"
        /\ calls[t].op = "Take"
        /\ calls[t].ports # << >>
        /\ calls[t].seen # {}

\* C18: checkFreedPorts completes normally for every pendingPorts and every
\* combination of probe results.
C18_ReconcileCompletes ==
    lastOp.op = "reconcile" => (lastOp.err # "panic" /\ fault = "none")

\* The ports caller t has: those it holds, those its Take has collected and
\* those its Return has not appended yet.
Owned(t) ==
    calls[t].held \o
        (IF calls[t].op = "Take" THEN calls[t].ports
         ELSE IF calls[t].op = "Return"
         THEN SubSeq(calls[t].arg, calls[t].i, Len(calls[t].arg))
         ELSE << >>)

\* C19: when callers return only ports they got from Take, each once, every
\* port is in one place at most and once at most: in freePorts, in
\* pendingPorts, or with one caller.
C19_EachPortInOnePlace ==
    LET all == freePorts \o pendingPorts \o Owned(1) \o Owned(2)
    IN  \A i, j \in 1..Len(all) : i # j => all[i] # all[j]

\* C20: right after New has returned an allocator, freePorts is strictly
\* ascending and holds exactly the ports inside
\* (firstPort, firstPort+BlockSize) that probed free; it does not hold
\* firstPort, and pendingPorts is empty.
C20_InitialFreePorts ==
    (lastOp.op = "New" /\ phase = "ready") =>
        /\ \A i, j \in 1..Len(freePorts) : i < j => freePorts[i] < freePorts[j]
        /\ Range(freePorts) =
             { p \in (firstPort + 1)..(firstPort + config.BlockSize - 1) :
                 p \notin lastOp.used }
        /\ firstPort \notin Range(freePorts)
        /\ pendingPorts = << >>

\* New returned an allocator that holds its reservation, with a port of the
\* block in use and two or more free.
C20_Witness ==
    /\ lastOp.op = "New"
    /\ phase = "ready"
    /\ ln.held
    /\ lastOp.used # {}
    /\ Len(freePorts) >= 2

=============================================================================
